---- MODULE Spec2Model ----
(***************************************************************************)
(* Agentic Wallet Guard: the transaction-authorization state machine of    *)
(* guard.mjs (requestSend / confirmSend / freeze / unfreeze / getStatus)   *)
(* over the persisted state.json, with config.mjs and allowlist.mjs as the *)
(* stores it consults and integrity.mjs (HMAC tags in .signatures) as the  *)
(* layer that signs every tracked file on write and verifies it on read.   *)
(*                                                                         *)
(* Time is in milliseconds, as Date.now() gives it.  The clock starts one  *)
(* second  before a UTC midnight and advances in steps of one second, so   *)
(* that one date rollover lies inside the explored window.  The several    *)
(* clock reads of one handler (Date.now(), new Date()) are taken to return *)
(* the same instant.                                                       *)
(***************************************************************************)
EXTENDS Integers, Sequences, FiniteSets, TLC

VARIABLES
    now,        \* the wall clock, ms since the epoch of the model
    stateFile,  \* content of state.json, or NoFile
    allowlist,  \* content of allowlist.json: the "addresses" array
    appended,   \* the lines the latest call appended to transactions.log
    call,       \* the latest call: operation and arguments
    ret,        \* the value the latest call returned
    approvedOn, \* history: sum of the approved amounts per calendar date
    secret,     \* process.env.AWG_INTEGRITY_SECRET, or Null
    signatures, \* content of .signatures: tracked file name -> tag, or Undefined
    configFile, \* content of config.json
    lastSaved,  \* history: per tracked file, the content and tag its last save left
    edits,      \* history: number of edits made to the files outside the guard
    executing,  \* the transfer "awg confirm" has handed to awal and waits for, or Null
    latest,     \* history: the latest request given a code, and the confirmation it replaced
    inflight    \* per invocation: the call that has loaded state.json and not yet decided

\* what the command line adds to the engine, and what overlapping invocations add
cliVars == <<executing, latest>>

raceVars == <<inflight>>

vars == <<now, stateFile, allowlist, appended, call, ret, approvedOn,
          secret, signatures, configFile, lastSaved, edits, cliVars, raceVars>>

----------------------------------------------------------------------------
(* Bounds of the exploration *)

MaxTicks == 2

MaxRecent == 2

MaxEdits == 1

----------------------------------------------------------------------------
(* Program constants *)

MAX_CONFIRM_ATTEMPTS == 3

MsPerSec == 1000

MsPerDay == 86400000

----------------------------------------------------------------------------
(* JavaScript values *)

Null == [null |-> TRUE]

Undefined == [undefined |-> TRUE]

NoFile == [exists |-> FALSE]

\* new Date(ms).toISOString(): an ISO-8601 string with millisecond precision
toISOString(ms) == [iso |-> ms]

\* new Date(isoString).getTime()
getTime(d) == d.iso

\* new Date(ms).toISOString().slice(0, 10): the UTC calendar date
DateOf(ms) == [date |-> ms \div MsPerDay]

\* Math.ceil(x / 1000) for an integer x
CeilSec(x) == -((-x) \div MsPerSec)

\* String.prototype.toLowerCase over the characters the addresses use
LowerChar(c) == CASE c = "A" -> "a" [] c = "B" -> "b" [] c = "C" -> "c" [] OTHER -> c

toLowerCase(s) == [i \in DOMAIN s |-> LowerChar(s[i])]

RECURSIVE Digits(_)
\* String(n) for a non-negative integer n: its decimal digits
Digits(n) == IF n < 10 THEN <<n>> ELSE Append(Digits(n \div 10), n % 10)

\* crypto.randomInt(min, max): min <= n < max; the values the model draws
CodeSamples == {100000, 999999}

\* the values of a set of draws that lie in min <= n < max
randomIntOf(samples, min, max) == {n \in samples : min <= n /\ n < max}

randomInt(min, max) == randomIntOf(CodeSamples, min, max)

----------------------------------------------------------------------------
(* integrity.mjs.  A file's content stands for its serialized bytes; the   *)
(* HMAC is taken to be collision-free: equal tags mean equal key and       *)
(* content.  ig is the integrity context of a call: the secret of the      *)
(* process and the .signatures mapping it finds.                           *)

TRACKED_FILES == {"config.json", "allowlist.json", "state.json"}

\* createHmac('sha256', secret).update(content).digest('hex')
createHmac(sec, content) == [key |-> sec.key, content |-> content]

\* faulty variant: the tag of the previous content is kept
signWrite_KeepsOldTag(ig, filename, content) == ig.signatures

\* sign: the .signatures mapping it leaves behind
signWrite(ig, filename, content) ==
    IF ig.secret = Null THEN ig.signatures
    ELSE IF content = NoFile THEN ig.signatures
    ELSE [ig.signatures EXCEPT ![filename] = createHmac(ig.secret, content)]

\* sign: the value it returns
sign(ig, filename, content) ==
    IF ig.secret = Null THEN Null
    ELSE IF content = NoFile THEN Null
    ELSE createHmac(ig.secret, content)

\* faulty variant: without a secret nothing verifies
verify_NeedsSecret(ig, filename, content) ==
    IF ig.secret = Null THEN FALSE
    ELSE IF content = NoFile THEN TRUE
    ELSE IF ig.signatures[filename] = Undefined THEN FALSE
    ELSE createHmac(ig.secret, content) = ig.signatures[filename]

verify(ig, filename, content) ==
    IF ig.secret = Null THEN TRUE
    ELSE IF content = NoFile THEN TRUE
    ELSE IF ig.signatures[filename] = Undefined THEN FALSE
    ELSE createHmac(ig.secret, content) = ig.signatures[filename]

\* new Error('Integrity check failed for <filename> ...'), thrown to the caller
IntegrityError(filename) == [threw |-> "Integrity check failed", file |-> filename]

----------------------------------------------------------------------------
(* config.json as the calls load it: a configuration scaled so that every  *)
(* limit is met inside the explored window (seconds, as in the file)       *)

\* the authorized requester, and an identity that is not on the list
SenderA == [platform |-> "imessage", id |-> "+1234"]

SenderC == [platform |-> "imessage", id |-> "+9999"]

config ==
    [limits |-> [perTransaction |-> 2, dailyMax |-> 3, highValueThreshold |-> 3],
     cooldown |-> [betweenTransactions |-> 1, afterRejection |-> 2],
     confirmation |-> [codeExpiry |-> 1, codeLength |-> 6, requiredForAllSends |-> TRUE],
     freezeOnAnomalies |-> [rapidRequests |-> 2, windowSeconds |-> 1],
     authorizedSenders |-> <<SenderA>>]

\* config.json holds every key, so the merge over DEFAULT_CONFIG is its content
loadConfig == configFile

loadConfigThrows(ig) == ~ verify(ig, "config.json", configFile)

----------------------------------------------------------------------------
(* allowlist.mjs *)

\* allowlist.json, whose "addresses" array is al
AllowlistFile(al) == [addresses |-> al]

loadAllowlist(al) == AllowlistFile(al).addresses

loadAllowlistThrows(ig, al) == ~ verify(ig, "allowlist.json", AllowlistFile(al))

isAllowed(al, address) ==
    LET normalized == toLowerCase(address)
    IN \E i \in DOMAIN loadAllowlist(al) :
           toLowerCase(loadAllowlist(al)[i].address) = normalized

----------------------------------------------------------------------------
(* guard.mjs: persistence *)

DefaultState(t) ==
    [frozen |-> FALSE,
     frozenAt |-> Null,
     frozenReason |-> Undefined,
     dailyTotal |-> 0,
     dailyDate |-> DateOf(t),
     lastTransaction |-> Null,
     pendingConfirmation |-> Null,
     recentRequests |-> <<>>]

loadState(file, t) == IF file = NoFile THEN DefaultState(t) ELSE file

\* faulty variant: state.json is read without verification
loadStateThrows_Unverified(ig, file) == FALSE

loadStateThrows(ig, file) == file # NoFile /\ ~ verify(ig, "state.json", file)

\* What a handler leaves behind: state.json, the lines it logged, its result
Out(file, log, result) == [file |-> file, log |-> log, ret |-> result]

\* The same after saveState: state.json written, then signed
Saved(ig, state, log, result) ==
    [file |-> state, log |-> log, ret |-> result,
     sigs |-> signWrite(ig, "state.json", state)]

\* A handler left by an integrity error: nothing written, nothing logged
Thrown(file, filename) == Out(file, <<>>, IntegrityError(filename))

\* logTransaction: the entry plus the time of the write
LogLine(entry, t) == [entry |-> entry, timestamp |-> toISOString(t)]

----------------------------------------------------------------------------
(* guard.mjs: freeze, unfreeze, getStatus *)

\* faulty variant: freezing cancels the pending confirmation
freeze_ClearsPending(ig, file, t, reason) ==
    IF loadStateThrows(ig, file) THEN Thrown(file, "state.json")
    ELSE
    LET state == [loadState(file, t) EXCEPT
                      !.frozen = TRUE,
                      !.frozenAt = toISOString(t),
                      !.frozenReason = reason,
                      !.pendingConfirmation = Null]
    IN Saved(ig, state,
             <<LogLine([action |-> "freeze", reason |-> reason], t)>>,
             [frozen |-> TRUE, reason |-> reason])

freeze(ig, file, t, reason) ==
    IF loadStateThrows(ig, file) THEN Thrown(file, "state.json")
    ELSE
    LET state == [loadState(file, t) EXCEPT
                      !.frozen = TRUE,
                      !.frozenAt = toISOString(t),
                      !.frozenReason = reason]
    IN Saved(ig, state,
             <<LogLine([action |-> "freeze", reason |-> reason], t)>>,
             [frozen |-> TRUE, reason |-> reason])

unfreeze(ig, file, t) ==
    IF loadStateThrows(ig, file) THEN Thrown(file, "state.json")
    ELSE
    LET state == [loadState(file, t) EXCEPT
                      !.frozen = FALSE,
                      !.frozenAt = Null,
                      !.frozenReason = Null]
    IN Saved(ig, state,
             <<LogLine([action |-> "unfreeze"], t)>>,
             [frozen |-> FALSE])

StatusOf(state) ==
    [frozen |-> state.frozen,
     frozenReason |-> state.frozenReason,
     dailyTotal |-> state.dailyTotal,
     dailyMax |-> loadConfig.limits.dailyMax,
     dailyRemaining |-> loadConfig.limits.dailyMax - state.dailyTotal,
     pendingConfirmation |-> (state.pendingConfirmation # Null)]

\* faulty variant: the daily total is reset on every call
getStatus_ResetsAlways(ig, file, t) ==
    IF loadStateThrows(ig, file) THEN Thrown(file, "state.json")
    ELSE IF loadConfigThrows(ig) THEN Thrown(file, "config.json")
    ELSE
    LET state == loadState(file, t)
        rolled == [state EXCEPT !.dailyTotal = 0, !.dailyDate = DateOf(t)]
    IN Saved(ig, rolled, <<>>, StatusOf(rolled))

getStatus(ig, file, t) ==
    IF loadStateThrows(ig, file) THEN Thrown(file, "state.json")
    ELSE IF loadConfigThrows(ig) THEN Thrown(file, "config.json")
    ELSE
    LET state == loadState(file, t)
        today == DateOf(t)
    IN IF state.dailyDate # today
       THEN LET rolled == [state EXCEPT !.dailyTotal = 0, !.dailyDate = today]
            IN Saved(ig, rolled, <<>>, StatusOf(rolled))
       ELSE Out(file, <<>>, StatusOf(state))

----------------------------------------------------------------------------
(* guard.mjs: requestSend *)

\* "Reset daily total if new day"
RollOver(state, t) ==
    IF state.dailyDate # DateOf(t)
    THEN [state EXCEPT !.dailyTotal = 0, !.dailyDate = DateOf(t)]
    ELSE state

\* faulty variant: only a manual freeze blocks requests
WalletFrozen_OnlyManual(state) == state.frozen /\ state.frozenReason = "manual"

\* "Check frozen"
WalletFrozen(state) == state.frozen

\* faulty variant: the sender check is skipped
Unauthorized_Skipped(sender) == FALSE

\* The sender authorization check fails
Unauthorized(sender) ==
    /\ Len(loadConfig.authorizedSenders) > 0
    /\ sender # Null
    /\ ~ \E i \in DOMAIN loadConfig.authorizedSenders :
            /\ loadConfig.authorizedSenders[i].platform = sender.platform
            /\ loadConfig.authorizedSenders[i].id = sender.id

\* faulty variant: an amount equal to the limit is already refused
OverPerTransaction_Inclusive(amount) == amount >= loadConfig.limits.perTransaction

OverPerTransaction(amount) == amount > loadConfig.limits.perTransaction

\* faulty variant: the amounts already spent today are forgotten
OverDaily_IgnoresSpent(state, amount) == amount > loadConfig.limits.dailyMax

OverDaily(state, amount) == state.dailyTotal + amount > loadConfig.limits.dailyMax

\* faulty variant: the cooldown is not checked
CooldownActive_Unchecked(state, t) == FALSE

\* elapsed = (now - lastTransaction) / 1000 < cooldown.betweenTransactions
CooldownActive(state, t) ==
    /\ state.lastTransaction # Null
    /\ t - getTime(state.lastTransaction) < loadConfig.cooldown.betweenTransactions * MsPerSec

CooldownWait(state, t) ==
    CeilSec(loadConfig.cooldown.betweenTransactions * MsPerSec
            - (t - getTime(state.lastTransaction)))

\* recentRequests filtered to the anomaly window, with the current time pushed
InWindow(ts, t) == t - ts < loadConfig.freezeOnAnomalies.windowSeconds * MsPerSec

PushRecent(recent, t) == Append(SelectSeq(recent, LAMBDA ts : InWindow(ts, t)), t)

\* faulty variant: the threshold itself is still tolerated
TooRapid_OffByOne(recent) == Len(recent) > loadConfig.freezeOnAnomalies.rapidRequests

\* faulty variant: no number of requests is too rapid
TooRapid_Never(recent) == FALSE

\* faulty variant: only the threshold itself counts as too rapid
TooRapid_ExactCount(recent) == Len(recent) = loadConfig.freezeOnAnomalies.rapidRequests

TooRapid(recent) == Len(recent) >= loadConfig.freezeOnAnomalies.rapidRequests

\* faulty variant: the expiry is computed in seconds instead of milliseconds
NewPending_ExpirySeconds(code, to, amount, token, sender, t) ==
    [code |-> code,
     to |-> to,
     amount |-> amount,
     token |-> token,
     sender |-> sender,
     attempts |-> 0,
     createdAt |-> toISOString(t),
     expiresAt |-> toISOString(t + loadConfig.confirmation.codeExpiry)]

\* faulty variant: the new confirmation starts with one attempt used
NewPending_AttemptsOne(code, to, amount, token, sender, t) ==
    [code |-> code,
     to |-> to,
     amount |-> amount,
     token |-> token,
     sender |-> sender,
     attempts |-> 1,
     createdAt |-> toISOString(t),
     expiresAt |-> toISOString(t + loadConfig.confirmation.codeExpiry * MsPerSec)]

\* The pending confirmation a passing request stores
NewPending(code, to, amount, token, sender, t) ==
    [code |-> code,
     to |-> to,
     amount |-> amount,
     token |-> token,
     sender |-> sender,
     attempts |-> 0,
     createdAt |-> toISOString(t),
     expiresAt |-> toISOString(t + loadConfig.confirmation.codeExpiry * MsPerSec)]

\* faulty variant: the audit entry of a request carries its code
RequestedEntry_WithCode(pending) ==
    [action |-> "confirmation_requested",
     to |-> pending.to, amount |-> pending.amount, token |-> pending.token,
     code |-> pending.code]

\* The audit entry of a request that was given a code
RequestedEntry(pending) ==
    [action |-> "confirmation_requested",
     to |-> pending.to, amount |-> pending.amount, token |-> pending.token]

Rejected(text) == [approved |-> FALSE, reason |-> [text |-> text]]

requestSend(ig, file, al, t, to, amount, token, sender, rnd) ==
    IF loadConfigThrows(ig) THEN Thrown(file, "config.json")
    ELSE IF loadStateThrows(ig, file) THEN Thrown(file, "state.json")
    ELSE
    LET state == RollOver(loadState(file, t), t)
    IN IF WalletFrozen(state)
       THEN Out(file,
                <<LogLine([action |-> "rejected", reason |-> "wallet_frozen",
                           to |-> to, amount |-> amount, token |-> token], t)>>,
                Rejected("Wallet is FROZEN. Unfreeze before sending."))
       ELSE IF Unauthorized(sender)
       THEN Out(file,
                <<LogLine([action |-> "rejected", reason |-> "unauthorized_sender",
                           sender |-> sender, to |-> to, amount |-> amount], t)>>,
                Rejected("Unauthorized sender."))
       ELSE IF loadAllowlistThrows(ig, al)
       THEN Thrown(file, "allowlist.json")
       ELSE IF ~ isAllowed(al, to)
       THEN Out(file,
                <<LogLine([action |-> "rejected", reason |-> "address_not_allowlisted",
                           to |-> to, amount |-> amount], t)>>,
                [approved |-> FALSE,
                 reason |-> [text |-> "Address not in allowlist. Add it first", to |-> to]])
       ELSE IF OverPerTransaction(amount)
       THEN Out(file,
                <<LogLine([action |-> "rejected", reason |-> "over_per_tx_limit",
                           to |-> to, amount |-> amount], t)>>,
                [approved |-> FALSE,
                 reason |-> [text |-> "Amount exceeds per-transaction limit",
                             amount |-> amount,
                             limit |-> loadConfig.limits.perTransaction]])
       ELSE IF OverDaily(state, amount)
       THEN Out(file,
                <<LogLine([action |-> "rejected", reason |-> "over_daily_limit",
                           to |-> to, amount |-> amount], t)>>,
                [approved |-> FALSE,
                 reason |-> [text |-> "Would exceed daily limit",
                             spent |-> state.dailyTotal,
                             limit |-> loadConfig.limits.dailyMax]])
       ELSE IF CooldownActive(state, t)
       THEN Out(file, <<>>,
                [approved |-> FALSE,
                 reason |-> [text |-> "Cooldown active", wait |-> CooldownWait(state, t)]])
       ELSE LET recent == PushRecent(state.recentRequests, t)
            IN IF TooRapid(recent)
               THEN Saved(ig,
                          [state EXCEPT !.recentRequests = recent,
                                        !.frozen = TRUE,
                                        !.frozenAt = toISOString(t),
                                        !.frozenReason = "anomaly_rapid_requests"],
                        <<LogLine([action |-> "auto_freeze", reason |-> "rapid_requests",
                                   count |-> Len(recent)], t)>>,
                        Rejected("WALLET AUTO-FROZEN: Too many rapid requests detected."))
               ELSE LET code == Digits(rnd)
                        pending == NewPending(code, to, amount, token, sender, t)
                    IN Saved(ig,
                             [state EXCEPT !.recentRequests = recent,
                                           !.pendingConfirmation = pending],
                           <<LogLine(RequestedEntry(pending), t)>>,
                           [approved |-> FALSE,
                            needsConfirmation |-> TRUE,
                            message |-> [text |-> "Confirm send",
                                         amount |-> amount, token |-> token, to |-> to,
                                         code |-> code,
                                         expiresInSeconds |->
                                             loadConfig.confirmation.codeExpiry]])

----------------------------------------------------------------------------
(* guard.mjs: confirmSend *)

\* faulty variant: the code is already expired at the instant expiresAt
Expired_Inclusive(pending, t) == t >= getTime(pending.expiresAt)

\* faulty variant: the expiry check is missing
Expired_Never(pending, t) == FALSE

\* now > new Date(pending.expiresAt).getTime()
Expired(pending, t) == t > getTime(pending.expiresAt)

\* faulty variant: only the platform is compared
SenderMismatch_PlatformOnly(pending, sender) ==
    /\ pending.sender # Null
    /\ sender # Null
    /\ pending.sender.platform # sender.platform

SenderMismatch(pending, sender) ==
    /\ pending.sender # Null
    /\ sender # Null
    /\ \/ pending.sender.platform # sender.platform
       \/ pending.sender.id # sender.id

\* faulty variant: one wrong code too many is tolerated
AttemptsExhausted_OffByOne(attempts) == attempts > MAX_CONFIRM_ATTEMPTS

AttemptsExhausted(attempts) == attempts >= MAX_CONFIRM_ATTEMPTS

\* faulty variant: the approved confirmation stays pending
CommitApproval_KeepsPending(state, pending, t) ==
    [state EXCEPT !.dailyTotal = @ + pending.amount,
                  !.lastTransaction = toISOString(t)]

\* "Approved!": the spend is committed and the confirmation consumed
CommitApproval(state, pending, t) ==
    [state EXCEPT !.dailyTotal = @ + pending.amount,
                  !.lastTransaction = toISOString(t),
                  !.pendingConfirmation = Null]

confirmSend(ig, file, t, code, sender) ==
    IF loadStateThrows(ig, file) THEN Thrown(file, "state.json")
    ELSE
    LET state == loadState(file, t)
        pending == state.pendingConfirmation
    IN IF pending = Null
       THEN Out(file, <<>>, Rejected("No pending transaction to confirm."))
       ELSE IF Expired(pending, t)
       THEN Saved(ig, [state EXCEPT !.pendingConfirmation = Null],
                <<LogLine([action |-> "confirmation_expired",
                           to |-> pending.to, amount |-> pending.amount], t)>>,
                Rejected("Confirmation code expired. Request a new transaction."))
       ELSE IF SenderMismatch(pending, sender)
       THEN Out(file,
                <<LogLine([action |-> "sender_mismatch",
                           to |-> pending.to, amount |-> pending.amount], t)>>,
                Rejected("Sender mismatch. Only the original requester can confirm."))
       ELSE IF code # pending.code
       THEN LET attempts == pending.attempts + 1
            IN IF AttemptsExhausted(attempts)
               THEN Saved(ig, [state EXCEPT !.pendingConfirmation = Null],
                        <<LogLine([action |-> "brute_force_cancel",
                                   to |-> pending.to, amount |-> pending.amount,
                                   attempts |-> attempts], t)>>,
                        Rejected("Transaction auto-cancelled: too many wrong confirmation codes."))
               ELSE Saved(ig, [state EXCEPT !.pendingConfirmation.attempts = attempts],
                        <<LogLine([action |-> "wrong_code",
                                   to |-> pending.to, amount |-> pending.amount], t)>>,
                        [approved |-> FALSE,
                         reason |-> [text |-> "Wrong confirmation code.",
                                     remaining |-> MAX_CONFIRM_ATTEMPTS - attempts]])
       ELSE Saved(ig, CommitApproval(state, pending, t),
                <<LogLine([action |-> "approved", to |-> pending.to,
                           amount |-> pending.amount, token |-> pending.token], t)>>,
                [approved |-> TRUE,
                 to |-> pending.to,
                 amount |-> pending.amount,
                 token |-> pending.token,
                 message |-> [text |-> "Approved! Sending",
                              amount |-> pending.amount, token |-> pending.token,
                              to |-> pending.to]])

----------------------------------------------------------------------------
(* The callers' inputs *)

\* the allowlisted address as the caller may write it, and one that is not listed
Addresses == {<<"0", "x", "A", "B">>, <<"0", "x", "C">>}

Amounts == {1, 2, 3}

Tokens == {"USDC"}

Senders == {Null, SenderA, SenderC}

\* codes a caller may reply with: the ones that can be issued, and one that cannot
Codes == {Digits(n) : n \in randomInt(100000, 999999)} \cup {<<0, 0, 0, 0, 0, 1>>}

FreezeReasons == {"manual"}

\* the two command-line invocations that may run at the same time
Invocations == {"first", "second"}

StartMs == MsPerDay - MsPerSec

EndMs == StartMs + MaxTicks * MsPerSec

Dates == {DateOf(StartMs + k * MsPerSec) : k \in 0..MaxTicks}

----------------------------------------------------------------------------
(* The state machine: one action per public operation, and the clock *)

\* the integrity context a call made now runs in
Integrity == [secret |-> secret, signatures |-> signatures]

NoSignatures == [f \in TRACKED_FILES |-> Undefined]

InitialAllowlist ==
    <<[address |-> toLowerCase(<<"0", "x", "A", "B">>),
       label |-> "Test",
       addedAt |-> toISOString(StartMs)]>>

\* .signatures after saveConfig(config) and addAddress('0xABCD', 'Test') under sec
SetupSignatures(sec) ==
    LET afterConfig == signWrite([secret |-> sec, signatures |-> NoSignatures],
                                 "config.json", config)
    IN signWrite([secret |-> sec, signatures |-> afterConfig],
                 "allowlist.json", AllowlistFile(InitialAllowlist))

\* the wallet directory as the tests set it up: config saved, one address added
Setup(sec) ==
    /\ now = StartMs
    /\ stateFile = NoFile
    /\ allowlist = InitialAllowlist
    /\ appended = <<>>
    /\ call = [op |-> "init"]
    /\ ret = Null
    /\ approvedOn = [d \in Dates |-> 0]
    /\ secret = sec
    /\ signatures = SetupSignatures(sec)
    /\ configFile = config
    /\ edits = 0
    /\ executing = Null
    /\ latest = [request |-> Null, replaced |-> Null]
    /\ inflight = [i \in Invocations |-> Null]
    /\ lastSaved = [f \in TRACKED_FILES |->
                       [content |-> CASE f = "config.json" -> config
                                      [] f = "allowlist.json" -> AllowlistFile(InitialAllowlist)
                                      [] OTHER -> NoFile,
                        tag |-> SetupSignatures(sec)[f]]]

\* guard.test.mjs runs without AWG_INTEGRITY_SECRET
Init == Setup(Null)

\* The effects of one call; out is the value the handler leaves, computed once
Apply(out) ==
    /\ stateFile' = out.file
    /\ appended' = out.log
    /\ ret' = out.ret
    /\ signatures' = IF "sigs" \in DOMAIN out THEN out.sigs ELSE signatures
    /\ lastSaved' = IF "sigs" \in DOMAIN out
                    THEN [lastSaved EXCEPT !["state.json"] =
                              [content |-> out.file, tag |-> out.sigs["state.json"]]]
                    ELSE lastSaved

Tick ==
    /\ now < EndMs
    /\ now' = now + MsPerSec
    /\ appended' = <<>>
    /\ call' = [op |-> "tick"]
    /\ ret' = Null
    /\ UNCHANGED <<stateFile, allowlist, approvedOn,
                   secret, signatures, configFile, lastSaved, edits,
                   cliVars, raceVars>>

RequestSend(to, amount, token, sender, rnd) ==
    /\ \E out \in {requestSend(Integrity, stateFile, allowlist, now,
                                to, amount, token, sender, rnd)} :
          /\ (IF out.file = NoFile THEN TRUE
              ELSE Len(out.file.recentRequests) <= MaxRecent)
          /\ Apply(out)
    /\ call' = [op |-> "requestSend", to |-> to, amount |-> amount,
                token |-> token, sender |-> sender]
    /\ UNCHANGED <<now, allowlist, approvedOn, secret, configFile, edits,
                   cliVars, raceVars>>

ConfirmSend(code, sender) ==
    /\ \E out \in {confirmSend(Integrity, stateFile, now, code, sender)} :
          /\ Apply(out)
          /\ approvedOn' = IF "approved" \in DOMAIN out.ret /\ out.ret.approved
                           THEN [approvedOn EXCEPT ![DateOf(now)] = @ + out.ret.amount]
                           ELSE approvedOn
    /\ call' = [op |-> "confirmSend", code |-> code, sender |-> sender]
    /\ UNCHANGED <<now, allowlist, secret, configFile, edits,
                   cliVars, raceVars>>

Freeze(reason) ==
    /\ \E out \in {freeze(Integrity, stateFile, now, reason)} : Apply(out)
    /\ call' = [op |-> "freeze", reason |-> reason]
    /\ UNCHANGED <<now, allowlist, approvedOn, secret, configFile, edits,
                   cliVars, raceVars>>

Unfreeze ==
    /\ \E out \in {unfreeze(Integrity, stateFile, now)} : Apply(out)
    /\ call' = [op |-> "unfreeze"]
    /\ UNCHANGED <<now, allowlist, approvedOn, secret, configFile, edits,
                   cliVars, raceVars>>

GetStatus ==
    /\ \E out \in {getStatus(Integrity, stateFile, now)} : Apply(out)
    /\ call' = [op |-> "getStatus"]
    /\ UNCHANGED <<now, allowlist, approvedOn, secret, configFile, edits,
                   cliVars, raceVars>>

Next ==
    \/ Tick
    \/ \E to \in Addresses, amount \in Amounts, token \in Tokens, sender \in Senders,
          rnd \in randomInt(100000, 999999) :
           RequestSend(to, amount, token, sender, rnd)
    \/ \E code \in Codes, sender \in Senders : ConfirmSend(code, sender)
    \/ \E reason \in FreezeReasons : Freeze(reason)
    \/ Unfreeze
    \/ GetStatus

Spec == Init /\ [][Next]_vars

----------------------------------------------------------------------------
(* The wallet directory under an integrity secret and an adversary: the    *)
(* operations that save config.json and allowlist.json, and the edits made *)
(* to the files behind the guard's back.                                   *)

\* the value a command-line operation returns, or the error it ends with
Returned(value) == [value |-> value]

\* cli.mjs "config set limits.dailyMax <val>": loadConfig, assign, saveConfig
ConfigSet(val) ==
    /\ IF loadConfigThrows(Integrity)
       THEN /\ ret' = IntegrityError("config.json")
            /\ UNCHANGED <<configFile, signatures, lastSaved>>
       ELSE LET saved == [loadConfig EXCEPT !.limits.dailyMax = val]
                sigs == signWrite(Integrity, "config.json", saved)
            IN /\ configFile' = saved
               /\ signatures' = sigs
               /\ lastSaved' = [lastSaved EXCEPT !["config.json"] =
                                    [content |-> saved, tag |-> sigs["config.json"]]]
               /\ ret' = Returned(val)
    /\ appended' = <<>>
    /\ call' = [op |-> "configSet", val |-> val]
    /\ UNCHANGED <<now, stateFile, allowlist, approvedOn, secret, edits,
                   cliVars, raceVars>>

\* allowlist.mjs addAddress
AddAddress(address, label) ==
    /\ IF loadAllowlistThrows(Integrity, allowlist)
       THEN /\ ret' = IntegrityError("allowlist.json")
            /\ UNCHANGED <<allowlist, signatures, lastSaved>>
       ELSE IF isAllowed(allowlist, address)
       THEN /\ ret' = Returned(FALSE)
            /\ UNCHANGED <<allowlist, signatures, lastSaved>>
       ELSE LET saved == Append(loadAllowlist(allowlist),
                                [address |-> toLowerCase(address),
                                 label |-> label,
                                 addedAt |-> toISOString(now)])
                sigs == signWrite(Integrity, "allowlist.json", AllowlistFile(saved))
            IN /\ allowlist' = saved
               /\ signatures' = sigs
               /\ lastSaved' = [lastSaved EXCEPT !["allowlist.json"] =
                                    [content |-> AllowlistFile(saved),
                                     tag |-> sigs["allowlist.json"]]]
               /\ ret' = Returned(TRUE)
    /\ appended' = <<>>
    /\ call' = [op |-> "addAddress", address |-> address]
    /\ UNCHANGED <<now, stateFile, approvedOn, secret, configFile, edits,
                   cliVars, raceVars>>

\* the content of a tracked file
ContentOf(filename) ==
    CASE filename = "config.json" -> configFile
      [] filename = "allowlist.json" -> AllowlistFile(allowlist)
      [] OTHER -> stateFile

\* An edit outside the guard leaves the clock, the log and the save history alone
Outside(what) ==
    /\ edits < MaxEdits
    /\ edits' = edits + 1
    /\ appended' = <<>>
    /\ call' = [op |-> "tamper", what |-> what]
    /\ ret' = Null
    /\ UNCHANGED <<now, approvedOn, secret, lastSaved,
                   cliVars, raceVars>>

\* state.json rewritten by hand: the wallet unfrozen, or the day's spending erased
StateEdits(file) == {[file EXCEPT !.frozen = FALSE], [file EXCEPT !.dailyTotal = 0]}

TamperState ==
    /\ stateFile # NoFile
    /\ \E edited \in StateEdits(stateFile) \ {stateFile} : stateFile' = edited
    /\ Outside("state.json")
    /\ UNCHANGED <<allowlist, signatures, configFile>>

DeleteState ==
    /\ stateFile # NoFile
    /\ stateFile' = NoFile
    /\ Outside("state.json deleted")
    /\ UNCHANGED <<allowlist, signatures, configFile>>

\* config.json rewritten by hand: the list of authorized senders emptied
TamperConfig ==
    /\ configFile.authorizedSenders # <<>>
    /\ configFile' = [configFile EXCEPT !.authorizedSenders = <<>>]
    /\ Outside("config.json")
    /\ UNCHANGED <<stateFile, allowlist, signatures>>

\* allowlist.json rewritten by hand: the adversary's address added
TamperAllowlist ==
    /\ ~ isAllowed(allowlist, <<"0", "x", "C">>)
    /\ allowlist' = Append(allowlist, [address |-> <<"0", "x", "c">>,
                                       label |-> "",
                                       addedAt |-> toISOString(now)])
    /\ Outside("allowlist.json")
    /\ UNCHANGED <<stateFile, signatures, configFile>>

\* a tag that no secret and content produce
ForgedTag == [key |-> "forged", content |-> Null]

\* .signatures rewritten by hand: a tag removed or replaced
TamperTag(filename, tag) ==
    /\ signatures[filename] # tag
    /\ signatures' = [signatures EXCEPT ![filename] = tag]
    /\ Outside(".signatures")
    /\ UNCHANGED <<stateFile, allowlist, configFile>>

Secrets == {Null, [key |-> "test-secret-key-123"]}

IntegrityInit == \E sec \in Secrets : Setup(sec)

\* Nothing in the integrity layer depends on the time: the clock stands still
IntegrityNext ==
    \/ \E to \in Addresses, rnd \in randomInt(100000, 999999) :
           RequestSend(to, 1, "USDC", SenderA, rnd)
    \/ \E rnd \in randomInt(100000, 999999) : ConfirmSend(Digits(rnd), SenderA)
    \/ Freeze("manual")
    \/ Unfreeze
    \/ GetStatus
    \/ ConfigSet(config.limits.dailyMax + 1)
    \/ AddAddress(<<"0", "x", "D">>, "Added")
    \/ TamperState
    \/ DeleteState
    \/ TamperConfig
    \/ TamperAllowlist
    \/ \E filename \in TRACKED_FILES, tag \in {Undefined, ForgedTag} :
           TamperTag(filename, tag)

IntegritySpec == IntegrityInit /\ [][IntegrityNext]_vars

----------------------------------------------------------------------------
(* The command line (cli.mjs): "awg send" and "awg confirm" call the guard *)
(* without a sender; an approved confirm then hands the transfer to awal   *)
(* with execSync and waits for it.  Every command is a process of its own, *)
(* so "awg send", "awg status" and "awg allowlist remove" may run while    *)
(* awal is executing.                                                      *)

\* awg send <amount>: parseFloat(args[1]), refused by the usage check if it is 0
CliAmounts == {1, 2}

\* draws of randomInt for the codes the command line is given
CliDraws == randomIntOf(CodeSamples \cup {543210}, 100000, 999999)

\* awg confirm <code>: the codes that can be issued, and one that cannot
CliCodes == {Digits(n) : n \in CliDraws} \cup {<<0, 0, 0, 0, 0, 1>>}

\* awg send <amount> <address>: requestSend({ to, amount, token })
CliSend(to, amount, rnd) ==
    /\ \E out \in {requestSend(Integrity, stateFile, allowlist, now,
                                to, amount, "USDC", Null, rnd)} :
          /\ (IF out.file = NoFile THEN TRUE
              ELSE Len(out.file.recentRequests) <= MaxRecent)
          /\ Apply(out)
          /\ latest' = IF "needsConfirmation" \in DOMAIN out.ret
                       THEN [request |-> [to |-> to, amount |-> amount, token |-> "USDC"],
                             replaced |-> loadState(stateFile, now).pendingConfirmation]
                       ELSE latest
    /\ call' = [op |-> "requestSend", to |-> to, amount |-> amount,
                token |-> "USDC", sender |-> Null]
    /\ UNCHANGED <<now, allowlist, approvedOn, secret, configFile, edits,
                   executing, raceVars>>

\* awg confirm <code>: confirmSend(baseDir, code); if approved, awal is started
CliConfirm(code) ==
    /\ executing = Null
    /\ \E out \in {confirmSend(Integrity, stateFile, now, code, Null)} :
          /\ Apply(out)
          /\ approvedOn' = IF "approved" \in DOMAIN out.ret /\ out.ret.approved
                           THEN [approvedOn EXCEPT ![DateOf(now)] = @ + out.ret.amount]
                           ELSE approvedOn
          /\ executing' = IF "approved" \in DOMAIN out.ret /\ out.ret.approved
                          THEN [code |-> code, to |-> out.ret.to,
                                amount |-> out.ret.amount]
                          ELSE Null
    /\ call' = [op |-> "confirmSend", code |-> code, sender |-> Null]
    /\ UNCHANGED <<now, allowlist, secret, configFile, edits, latest, raceVars>>

\* faulty variant: a failed transfer gives the amount back to the daily allowance
AwalSend_RollsBack(outcome) ==
    /\ executing # Null
    /\ executing' = Null
    /\ call' = [op |-> "awal", outcome |-> outcome, code |-> executing.code,
                to |-> executing.to, amount |-> executing.amount]
    /\ ret' = Null
    /\ appended' = <<>>
    /\ stateFile' = IF outcome = "failed" /\ stateFile # NoFile
                    THEN [stateFile EXCEPT !.dailyTotal = @ - executing.amount]
                    ELSE stateFile
    /\ UNCHANGED <<now, allowlist, approvedOn, secret, signatures,
                   configFile, lastSaved, edits, latest, raceVars>>

\* execSync(`npx awal send <amount> <to> --json`) returns its output or throws;
\* the error is caught and printed
AwalSend(outcome) ==
    /\ executing # Null
    /\ executing' = Null
    /\ call' = [op |-> "awal", outcome |-> outcome, code |-> executing.code,
                to |-> executing.to, amount |-> executing.amount]
    /\ ret' = Null
    /\ appended' = <<>>
    /\ UNCHANGED <<now, stateFile, allowlist, approvedOn, secret, signatures,
                   configFile, lastSaved, edits, latest, raceVars>>

\* allowlist.mjs removeAddress (awg allowlist remove <address>)
RemoveAddress(address) ==
    /\ IF loadAllowlistThrows(Integrity, allowlist)
       THEN /\ ret' = IntegrityError("allowlist.json")
            /\ UNCHANGED <<allowlist, signatures, lastSaved>>
       ELSE LET normalized == toLowerCase(address)
                kept == SelectSeq(loadAllowlist(allowlist),
                                  LAMBDA a : toLowerCase(a.address) # normalized)
            IN IF Len(kept) = Len(loadAllowlist(allowlist))
               THEN /\ ret' = Returned(FALSE)
                    /\ UNCHANGED <<allowlist, signatures, lastSaved>>
               ELSE LET sigs == signWrite(Integrity, "allowlist.json",
                                          AllowlistFile(kept))
                    IN /\ allowlist' = kept
                       /\ signatures' = sigs
                       /\ lastSaved' = [lastSaved EXCEPT !["allowlist.json"] =
                                            [content |-> AllowlistFile(kept),
                                             tag |-> sigs["allowlist.json"]]]
                       /\ ret' = Returned(TRUE)
    /\ appended' = <<>>
    /\ call' = [op |-> "removeAddress", address |-> address]
    /\ UNCHANGED <<now, stateFile, approvedOn, secret, configFile, edits,
                   cliVars, raceVars>>

CliNext ==
    \/ Tick
    \/ \E to \in Addresses, amount \in CliAmounts, rnd \in CliDraws :
           CliSend(to, amount, rnd)
    \/ \E code \in CliCodes : CliConfirm(code)
    \/ \E outcome \in {"sent", "failed"} : AwalSend(outcome)
    \/ GetStatus
    \/ RemoveAddress(<<"0", "x", "A", "B">>)

CliSpec == Init /\ [][CliNext]_vars

----------------------------------------------------------------------------
(* Overlapping invocations.  guard.mjs takes no lock on the wallet         *)
(* directory: a call reads state.json (loadState), decides on the copy it  *)
(* read, and writes the copy back (saveState).  Two processes can          *)
(* therefore each load before the other saves.  An invocation is split in  *)
(* two steps, the load and the rest of the handler; it keeps the clock     *)
(* value it read at the load.  The processes are interchangeable: the      *)
(* slot called "second" names the one that starts while another is in      *)
(* progress.                                                               *)

\* loadState of an invocation: the copy it will decide on
Load(i, invocation) ==
    /\ inflight[i] = Null
    /\ i = "second" => inflight["first"] # Null
    /\ inflight' = [inflight EXCEPT ![i] = invocation]
    /\ call' = [op |-> "loadState"]
    /\ ret' = Null
    /\ appended' = <<>>
    /\ UNCHANGED <<now, stateFile, allowlist, approvedOn, secret, signatures,
                   configFile, lastSaved, edits, cliVars>>

BeginRequest(i, to, amount, rnd) ==
    Load(i, [op |-> "requestSend", to |-> to, amount |-> amount, rnd |-> rnd,
             file |-> stateFile, at |-> now])

BeginConfirm(i, code) ==
    Load(i, [op |-> "confirmSend", code |-> code, file |-> stateFile, at |-> now])

\* The rest of a handler: saveState overwrites whatever state.json holds by then
Finish(i, out) ==
    /\ stateFile' = IF "sigs" \in DOMAIN out THEN out.file ELSE stateFile
    /\ appended' = out.log
    /\ ret' = out.ret
    /\ signatures' = IF "sigs" \in DOMAIN out THEN out.sigs ELSE signatures
    /\ lastSaved' = IF "sigs" \in DOMAIN out
                    THEN [lastSaved EXCEPT !["state.json"] =
                              [content |-> out.file, tag |-> out.sigs["state.json"]]]
                    ELSE lastSaved
    /\ inflight' = [inflight EXCEPT ![i] = Null]
    /\ UNCHANGED <<now, allowlist, secret, configFile, edits, cliVars>>

EndRequest(i) ==
    /\ inflight[i] # Null
    /\ inflight[i].op = "requestSend"
    /\ \E out \in {requestSend(Integrity, inflight[i].file, allowlist, inflight[i].at,
                                inflight[i].to, inflight[i].amount, "USDC", Null,
                                inflight[i].rnd)} :
          /\ (IF out.file = NoFile THEN TRUE
              ELSE Len(out.file.recentRequests) <= MaxRecent)
          /\ Finish(i, out)
    /\ call' = [op |-> "requestSend", to |-> inflight[i].to,
                amount |-> inflight[i].amount, token |-> "USDC",
                sender |-> Null]
    /\ UNCHANGED approvedOn

EndConfirm(i) ==
    /\ inflight[i] # Null
    /\ inflight[i].op = "confirmSend"
    /\ \E out \in {confirmSend(Integrity, inflight[i].file, inflight[i].at,
                                inflight[i].code, Null)} :
          /\ Finish(i, out)
          /\ approvedOn' = IF out.ret.approved
                           THEN [approvedOn EXCEPT ![DateOf(inflight[i].at)] =
                                     @ + out.ret.amount]
                           ELSE approvedOn
    /\ call' = [op |-> "confirmSend", code |-> inflight[i].code,
                sender |-> Null]

RaceNext ==
    \/ Tick
    \/ \E i \in Invocations, rnd \in randomInt(100000, 999999) :
           BeginRequest(i, <<"0", "x", "A", "B">>, 1, rnd)
    \/ \E i \in Invocations, rnd \in randomInt(100000, 999999) :
           BeginConfirm(i, Digits(rnd))
    \/ \E i \in Invocations : EndRequest(i)
    \/ \E i \in Invocations : EndConfirm(i)

RaceSpec == Init /\ [][RaceNext]_vars

----------------------------------------------------------------------------
(* The anomaly window across unfreeze.  unfreeze leaves recentRequests as  *)
(* the freezing request saved it, so a request made to the thawed wallet   *)
(* records one timestamp more than the freezing one did.                   *)

\* requestSend, with room for the timestamp a thawed wallet records
RequestAgain(to, amount, rnd) ==
    /\ \E out \in {requestSend(Integrity, stateFile, allowlist, now,
                                to, amount, "USDC", Null, rnd)} :
          /\ (IF out.file = NoFile THEN TRUE
              ELSE Len(out.file.recentRequests) <= MaxRecent + 1)
          /\ Apply(out)
    /\ call' = [op |-> "requestSend", to |-> to, amount |-> amount,
                token |-> "USDC", sender |-> Null]
    /\ UNCHANGED <<now, allowlist, approvedOn, secret, configFile, edits,
                   cliVars, raceVars>>

ThawNext ==
    \/ Tick
    \/ \E to \in Addresses, amount \in Amounts, rnd \in randomInt(100000, 999999) :
           RequestAgain(to, amount, rnd)
    \/ \E code \in Codes : ConfirmSend(code, Null)
    \/ Unfreeze

ThawSpec == Init /\ [][ThawNext]_vars

----------------------------------------------------------------------------
(* Amounts of either sign.  requestSend compares the amount with the       *)
(* limits from above only; "awg send" hands on every amount parseFloat     *)
(* returns that is not falsy, so of the integers it stops zero alone.      *)

SignedAmounts == {-1, 0, 1, 2}

\* if (!amount || !to): the usage message and exit code 1
UsageError(amount) == amount = 0

\* awg send <amount> <address>, for any integer parseFloat may return
AwgSend(to, amount, rnd) ==
    IF UsageError(amount)
    THEN /\ ret' = [exit |-> 1, usage |-> "awg send <amount> <address> [token]"]
         /\ call' = [op |-> "awg send", to |-> to, amount |-> amount]
         /\ appended' = <<>>
         /\ UNCHANGED <<now, stateFile, allowlist, approvedOn, secret, signatures,
                        configFile, lastSaved, edits, cliVars, raceVars>>
    ELSE CliSend(to, amount, rnd)

SignedNext ==
    \/ Tick
    \/ \E amount \in SignedAmounts, rnd \in randomInt(100000, 999999) :
           RequestSend(<<"0", "x", "A", "B">>, amount, "USDC", Null, rnd)
    \/ \E amount \in SignedAmounts, rnd \in randomInt(100000, 999999) :
           AwgSend(<<"0", "x", "A", "B">>, amount, rnd)
    \/ \E code \in Codes : ConfirmSend(code, Null)

SignedSpec == Init /\ [][SignedNext]_vars

----------------------------------------------------------------------------
(* Vocabulary of the properties, stated on the persisted state and on the  *)
(* latest call, independently of the handlers' own predicates              *)

HasPending == stateFile # NoFile /\ stateFile.pendingConfirmation # Null

PendingOf == stateFile.pendingConfirmation

HasPendingAfter == stateFile' # NoFile /\ stateFile'.pendingConfirmation # Null

IsFrozen == stateFile # NoFile /\ stateFile.frozen

\* the pending code is still valid at the current time
InTime == now <= PendingOf.expiresAt.iso

\* no identity recorded, none supplied, or the same identity
SameIdentity(recorded, supplied) ==
    \/ recorded = Null
    \/ supplied = Null
    \/ (recorded.platform = supplied.platform /\ recorded.id = supplied.id)

Confirming == call'.op = "confirmSend"

Requesting == call'.op = "requestSend"

\* the action of the single line the latest call logged, "none" if it logged nothing
LoggedAction(lines) == IF Len(lines) = 1 THEN lines[1].entry.action ELSE "none"

ReasonText(r) == IF "reason" \in DOMAIN r THEN r.reason.text ELSE "none"

IssuedCode(r) == "needsConfirmation" \in DOMAIN r /\ r.needsConfirmation

\* the daily total a request made now is checked against
SpentToday ==
    IF stateFile # NoFile /\ stateFile.dailyDate = DateOf(now)
    THEN stateFile.dailyTotal
    ELSE 0

\* the checks of a request, each stated on the arguments of the call being made
ReqFrozen == IsFrozen

ReqUnauthorized ==
    /\ config.authorizedSenders # <<>>
    /\ call'.sender # Null
    /\ call'.sender \notin {config.authorizedSenders[i] : i \in DOMAIN config.authorizedSenders}

ReqNotListed ==
    toLowerCase(call'.to) \notin {toLowerCase(allowlist[i].address) : i \in DOMAIN allowlist}

ReqOverPerTx == call'.amount > config.limits.perTransaction

ReqOverDaily == SpentToday + call'.amount > config.limits.dailyMax

ReqCooldown ==
    /\ stateFile # NoFile
    /\ stateFile.lastTransaction # Null
    /\ now - stateFile.lastTransaction.iso < config.cooldown.betweenTransactions * 1000

ReqTooRapid ==
    LET recent == IF stateFile = NoFile THEN <<>> ELSE stateFile.recentRequests
        young == {i \in DOMAIN recent :
                      now - recent[i] < config.freezeOnAnomalies.windowSeconds * 1000}
    IN Cardinality(young) + 1 >= config.freezeOnAnomalies.rapidRequests

----------------------------------------------------------------------------
(* C1: a wrong code (code not expired, no sender mismatch) raises attempts *)
(* by exactly one; the 1st and 2nd wrong code keep the confirmation, the   *)
(* 3rd cancels it and logs brute_force_cancel; the correct code after 0, 1 *)
(* or 2 wrong codes is approved; a persisted confirmation has attempts in  *)
(* {0, 1, 2}.                                                              *)

C1_WrongCodeStep ==
    (Confirming /\ HasPending /\ InTime /\ SameIdentity(PendingOf.sender, call'.sender))
    => IF call'.code # PendingOf.code
       THEN IF PendingOf.attempts < 2
            THEN /\ stateFile' = [stateFile EXCEPT
                                     !.pendingConfirmation.attempts = PendingOf.attempts + 1]
                 /\ ret'.approved = FALSE
                 /\ LoggedAction(appended') = "wrong_code"
            ELSE /\ PendingOf.attempts = 2
                 /\ stateFile' = [stateFile EXCEPT !.pendingConfirmation = Null]
                 /\ ret'.approved = FALSE
                 /\ LoggedAction(appended') = "brute_force_cancel"
                 /\ appended'[1].entry.attempts = 3
       ELSE /\ PendingOf.attempts \in {0, 1, 2}
            /\ ret'.approved = TRUE

C1_AttemptsCounted ==
    /\ [](HasPending => PendingOf.attempts \in {0, 1, 2})
    /\ [][C1_WrongCodeStep]_vars

\* the third wrong code has just cancelled a confirmation
C1_Witness ==
    /\ call.op = "confirmSend"
    /\ LoggedAction(appended) = "brute_force_cancel"
    /\ appended[1].entry.attempts = 3
    /\ ~ HasPending

----------------------------------------------------------------------------
(* C2: while frozen is true no confirmSend returns approved: true, also    *)
(* for a confirmation that was pending before the freeze.                  *)

C2_FrozenBlocksApproval ==
    [][(Confirming /\ IsFrozen) => ret'.approved = FALSE]_vars

----------------------------------------------------------------------------
(* C3: dailyTotal never exceeds limits.dailyMax; a requestSend whose       *)
(* amount would take today's total over dailyMax is rejected and changes   *)
(* nothing, and when it passes the checks made before the daily one        *)
(* (frozen, sender, allowlist, per-transaction) its reason is the          *)
(* daily-limit reason.                                                     *)

C3_OverDailyStep ==
    (Requesting /\ ReqOverDaily)
    => /\ ret'.approved = FALSE
       /\ ~ IssuedCode(ret')
       /\ stateFile' = stateFile
       /\ (~ ReqFrozen /\ ~ ReqUnauthorized /\ ~ ReqNotListed /\ ~ ReqOverPerTx)
              => ReasonText(ret') = "Would exceed daily limit"

C3_DailyLimit ==
    /\ [](stateFile # NoFile => stateFile.dailyTotal <= config.limits.dailyMax)
    /\ [][C3_OverDailyStep]_vars

\* the whole daily allowance is spent and a further request was just refused for it
C3_Witness ==
    /\ call.op = "requestSend"
    /\ ReasonText(ret) = "Would exceed daily limit"
    /\ stateFile.dailyTotal = config.limits.dailyMax
    /\ stateFile.dailyDate = DateOf(now)
    /\ call.amount <= config.limits.perTransaction

----------------------------------------------------------------------------
(* C4: dailyTotal is the sum of the amounts approved on the calendar date  *)
(* dailyDate, also when a confirmation is approved on a later date than    *)
(* its request.                                                            *)

C4_DailyTotalIsApprovedOnDate ==
    stateFile # NoFile => stateFile.dailyTotal = approvedOn[stateFile.dailyDate]

----------------------------------------------------------------------------
(* C5: every terminal transition of a pending confirmation (approval,      *)
(* expiry, brute-force cancel) leaves pendingConfirmation null; with       *)
(* nothing pending, confirmSend with any code returns "No pending          *)
(* transaction" and changes nothing; a confirmation becomes pending only   *)
(* by a requestSend that issues a code, so a code is approved at most once.*)

C5_OneTimeStep ==
    /\ (Confirming /\ ~ HasPending)
         => /\ ret' = [approved |-> FALSE,
                       reason |-> [text |-> "No pending transaction to confirm."]]
            /\ stateFile' = stateFile
            /\ appended' = <<>>
    /\ (Confirming /\ ret'.approved) => (HasPending /\ ~ HasPendingAfter)
    /\ (Confirming /\ LoggedAction(appended') \in {"approved", "confirmation_expired",
                                                   "brute_force_cancel"})
         => (HasPending /\ ~ HasPendingAfter)
    /\ (~ HasPending /\ HasPendingAfter) => (Requesting /\ IssuedCode(ret'))

C5_OneTimeCode == [][C5_OneTimeStep]_vars

\* the code that was just approved is replied a second time
C5_Witness ==
    /\ call.op = "confirmSend"
    /\ ReasonText(ret) = "No pending transaction to confirm."
    /\ call.code = Digits(100000)
    /\ stateFile # NoFile
    /\ stateFile.lastTransaction = toISOString(now)

----------------------------------------------------------------------------
(* C6: on a fresh wallet (not frozen, nothing spent, no previous           *)
(* transaction, nothing pending, anomaly threshold not reached) a request  *)
(* to an allowlisted address with amount <= limits.perTransaction, whose   *)
(* sender passes the sender check, returns approved: false with            *)
(* needsConfirmation: true and a 6-digit numeric code, and persists a      *)
(* pending confirmation with that code, the requested to/amount/token,     *)
(* attempts = 0 and expiresAt = request time + codeExpiry.                 *)

FreshWallet ==
    /\ ~ IsFrozen
    /\ SpentToday = 0
    /\ (stateFile # NoFile => stateFile.lastTransaction = Null)
    /\ ~ HasPending
    /\ ~ ReqTooRapid

SixDigits(code) == Len(code) = 6 /\ \A i \in 1..6 : code[i] \in 0..9

C6_FreshRequestStep ==
    (Requesting /\ FreshWallet /\ ~ ReqNotListed /\ ~ ReqUnauthorized
        /\ call'.amount <= config.limits.perTransaction)
    => /\ ret'.approved = FALSE
       /\ IssuedCode(ret')
       /\ SixDigits(ret'.message.code)
       /\ HasPendingAfter
       /\ stateFile'.pendingConfirmation.code = ret'.message.code
       /\ stateFile'.pendingConfirmation.to = call'.to
       /\ stateFile'.pendingConfirmation.amount = call'.amount
       /\ stateFile'.pendingConfirmation.token = call'.token
       /\ stateFile'.pendingConfirmation.attempts = 0
       /\ stateFile'.pendingConfirmation.expiresAt.iso
              = now + config.confirmation.codeExpiry * 1000

C6_FreshRequestIssuesCode == [][C6_FreshRequestStep]_vars

\* the first request of a wallet has just been given a code
C6_Witness ==
    /\ call.op = "requestSend"
    /\ IssuedCode(ret)
    /\ HasPending
    /\ PendingOf.attempts = 0
    /\ stateFile.dailyTotal = 0
    /\ stateFile.lastTransaction = Null
    /\ Len(stateFile.recentRequests) = 1

----------------------------------------------------------------------------
(* C7: requestSend reports the earliest failed check in the order frozen,  *)
(* unauthorized sender, address not allowlisted, over per-transaction      *)
(* limit, over daily limit, cooldown, anomaly freeze; a request rejected   *)
(* by one of the first six leaves state.json as it was (it is not added to *)
(* recentRequests); a request that fails none is given a code.             *)

ExpectedReason ==
    IF ReqFrozen THEN "Wallet is FROZEN. Unfreeze before sending."
    ELSE IF ReqUnauthorized THEN "Unauthorized sender."
    ELSE IF ReqNotListed THEN "Address not in allowlist. Add it first"
    ELSE IF ReqOverPerTx THEN "Amount exceeds per-transaction limit"
    ELSE IF ReqOverDaily THEN "Would exceed daily limit"
    ELSE IF ReqCooldown THEN "Cooldown active"
    ELSE IF ReqTooRapid THEN "WALLET AUTO-FROZEN: Too many rapid requests detected."
    ELSE "none"

C7_OrderStep ==
    Requesting
    => /\ ReasonText(ret') = ExpectedReason
       /\ IssuedCode(ret') <=> (ExpectedReason = "none")
       /\ (ReqFrozen \/ ReqUnauthorized \/ ReqNotListed \/ ReqOverPerTx
              \/ ReqOverDaily \/ ReqCooldown) => stateFile' = stateFile

C7_CheckOrder == [][C7_OrderStep]_vars

\* a request that fails the frozen, sender, allowlist and per-transaction checks at once
C7_Witness ==
    /\ call.op = "requestSend"
    /\ ReasonText(ret) = "Wallet is FROZEN. Unfreeze before sending."
    /\ call.sender = SenderC
    /\ call.to = <<"0", "x", "C">>
    /\ call.amount > config.limits.perTransaction

----------------------------------------------------------------------------
(* C8: a confirmSend made strictly after expiresAt is never approved: it   *)
(* clears the pending confirmation and logs confirmation_expired; at a     *)
(* time <= expiresAt the call is not rejected as expired, and the correct  *)
(* code from a matching identity is approved; expiresAt never changes      *)
(* while the confirmation stays pending.                                   *)

C8_ExpiryStep ==
    (Confirming /\ HasPending)
    => /\ (now > PendingOf.expiresAt.iso)
            => /\ ret' = [approved |-> FALSE,
                          reason |-> [text |->
                              "Confirmation code expired. Request a new transaction."]]
               /\ stateFile' = [stateFile EXCEPT !.pendingConfirmation = Null]
               /\ LoggedAction(appended') = "confirmation_expired"
       /\ (now <= PendingOf.expiresAt.iso)
            => /\ ReasonText(ret')
                      # "Confirmation code expired. Request a new transaction."
               /\ LoggedAction(appended') # "confirmation_expired"
               /\ (call'.code = PendingOf.code
                      /\ SameIdentity(PendingOf.sender, call'.sender))
                    => ret'.approved = TRUE
       /\ HasPendingAfter
            => stateFile'.pendingConfirmation.expiresAt = PendingOf.expiresAt

C8_AbsoluteExpiry == [][C8_ExpiryStep]_vars

\* the issued code is replied after its expiry and refused
C8_Witness ==
    /\ call.op = "confirmSend"
    /\ call.code = Digits(100000)
    /\ call.sender = Null
    /\ ReasonText(ret) = "Confirmation code expired. Request a new transaction."
    /\ LoggedAction(appended) = "confirmation_expired"

----------------------------------------------------------------------------
(* C9, as claimed: no persisted state and no getStatus result shows a      *)
(* pending confirmation whose expiresAt is earlier than the current time.  *)

C9_LazyExpiryStep ==
    (HasPending /\ now > PendingOf.expiresAt.iso)
    => /\ Confirming => (ret'.approved = FALSE /\ ~ HasPendingAfter)
       /\ (call'.op = "getStatus") => ret'.pendingConfirmation = TRUE
       /\ (call'.op \in {"tick", "getStatus", "freeze", "unfreeze"})
            => (HasPendingAfter /\ stateFile'.pendingConfirmation = PendingOf)

----------------------------------------------------------------------------
(* C10: a confirmSend whose supplied identity differs (platform or id)     *)
(* from the recorded requester fails with the sender-mismatch reason even  *)
(* with the correct code, logs sender_mismatch and leaves state.json       *)
(* unchanged (dailyTotal, lastTransaction, the pending confirmation and    *)
(* its attempts), so the requester can still confirm.                      *)

C10_MismatchStep ==
    (Confirming /\ HasPending /\ InTime
        /\ PendingOf.sender # Null /\ call'.sender # Null
        /\ (PendingOf.sender.platform # call'.sender.platform
               \/ PendingOf.sender.id # call'.sender.id))
    => /\ ret' = [approved |-> FALSE,
                  reason |-> [text |->
                      "Sender mismatch. Only the original requester can confirm."]]
       /\ LoggedAction(appended') = "sender_mismatch"
       /\ stateFile' = stateFile

C10_SenderMismatchKeepsState == [][C10_MismatchStep]_vars

\* another identity has just replied the correct code and was refused
C10_Witness ==
    /\ call.op = "confirmSend"
    /\ ReasonText(ret) = "Sender mismatch. Only the original requester can confirm."
    /\ HasPending
    /\ call.code = PendingOf.code
    /\ PendingOf.sender = SenderA
    /\ call.sender = SenderC

----------------------------------------------------------------------------
(* C11: whenever confirmSend returns approved: true for a pending          *)
(* confirmation that recorded a requester identity, the identity passed to *)
(* that call is the recorded one; a call that supplies no identity is not  *)
(* approved.                                                               *)

C11_ConfirmerIsRequester ==
    [][(Confirming /\ HasPending /\ PendingOf.sender # Null /\ ret'.approved)
          => call'.sender = PendingOf.sender]_vars

----------------------------------------------------------------------------
(* C12: with a non-empty authorizedSenders list, requestSend issues a code *)
(* only to a request whose sender identity is an entry of the list; every  *)
(* other request, also one without a sender identity, is rejected as       *)
(* unauthorized and creates no pending confirmation.                       *)

AuthorizedIdentities == {config.authorizedSenders[i] : i \in DOMAIN config.authorizedSenders}

C12_OnlyAuthorizedRequest ==
    [][(Requesting /\ config.authorizedSenders # <<>>)
          => /\ IssuedCode(ret') => call'.sender \in AuthorizedIdentities
             /\ (~ IsFrozen /\ call'.sender \notin AuthorizedIdentities)
                  => /\ ReasonText(ret') = "Unauthorized sender."
                     /\ stateFile' = stateFile]_vars

----------------------------------------------------------------------------
(* C13: no entry of transactions.log carries a confirmation code: every    *)
(* entry has only the audit fields (none named code or message); its text  *)
(* fields are fixed keywords or arguments of the call that logged it, and  *)
(* no number it carries contains the digits of a code requestSend can      *)
(* issue.  This holds after every call and every outcome of a              *)
(* confirmation.  (The timestamp is an ISO-8601 string, whose runs of      *)
(* digits are at most four long.)                                          *)

IssuableCodes == {Digits(n) : n \in randomInt(100000, 999999)}

AuditFields == {"action", "reason", "to", "amount", "token", "sender", "count", "attempts"}

AuditActions ==
    {"freeze", "unfreeze", "rejected", "auto_freeze", "confirmation_requested",
     "confirmation_expired", "sender_mismatch", "brute_force_cancel", "wrong_code",
     "approved"}

AuditReasons ==
    {"wallet_frozen", "unauthorized_sender", "address_not_allowlisted",
     "over_per_tx_limit", "over_daily_limit", "rapid_requests"} \cup FreezeReasons

\* the digit sequence part occurs in the digit sequence whole
Contains(whole, part) ==
    \E i \in 1..(Len(whole) - Len(part) + 1) :
        SubSeq(whole, i, i + Len(part) - 1) = part

CodeFree(entry) ==
    /\ DOMAIN entry \subseteq AuditFields
    /\ entry.action \in AuditActions
    /\ "reason" \in DOMAIN entry => entry.reason \in AuditReasons
    /\ "to" \in DOMAIN entry => entry.to \in Addresses
    /\ "token" \in DOMAIN entry => entry.token \in Tokens
    /\ "sender" \in DOMAIN entry => entry.sender \in Senders
    /\ \A f \in DOMAIN entry \cap {"amount", "count", "attempts"} :
           \A c \in IssuableCodes : ~ Contains(Digits(entry[f]), c)

C13_NoCodeInLog ==
    /\ HasPending => PendingOf.code \in IssuableCodes
    /\ IssuedCode(ret) => ret.message.code \in IssuableCodes
    /\ \A i \in DOMAIN appended : CodeFree(appended[i].entry)

\* the issued code has just been replied and approved, and the approval was logged
C13_Witness ==
    /\ call.op = "confirmSend"
    /\ call.code \in IssuableCodes
    /\ LoggedAction(appended) = "approved"
    /\ CodeFree(appended[1].entry)

----------------------------------------------------------------------------
(* C18: while frozen is true every requestSend, whatever its arguments, is *)
(* rejected with the frozen-wallet reason; it creates or replaces no       *)
(* pending confirmation, adds nothing to recentRequests, leaves state.json *)
(* unchanged and appends exactly one rejected / wallet_frozen entry.       *)

C18_FrozenStep ==
    (Requesting /\ IsFrozen)
    => /\ ret' = [approved |-> FALSE,
                  reason |-> [text |-> "Wallet is FROZEN. Unfreeze before sending."]]
       /\ stateFile' = stateFile
       /\ Len(appended') = 1
       /\ appended'[1].entry = [action |-> "rejected", reason |-> "wallet_frozen",
                                to |-> call'.to, amount |-> call'.amount,
                                token |-> call'.token]

C18_FrozenRejectsRequests == [][C18_FrozenStep]_vars

\* an otherwise acceptable request is refused by an automatically frozen wallet
C18_Witness ==
    /\ call.op = "requestSend"
    /\ LoggedAction(appended) = "rejected"
    /\ appended[1].entry.reason = "wallet_frozen"
    /\ stateFile.frozenReason = "anomaly_rapid_requests"
    /\ call.sender = SenderA
    /\ call.to = <<"0", "x", "A", "B">>
    /\ call.amount = 1

----------------------------------------------------------------------------
(* C19: a requestSend that passes the frozen, sender, allowlist, limit and *)
(* cooldown checks prunes recentRequests to the timestamps younger than    *)
(* the window and appends the current time; if the count is then at least  *)
(* rapidRequests the wallet is frozen with frozenReason                    *)
(* anomaly_rapid_requests, the state is persisted, auto_freeze is logged,  *)
(* the request is rejected and no pending confirmation is created for it;  *)
(* otherwise a code is issued.  No other call changes recentRequests, so   *)
(* the N-th such request inside the window freezes the wallet and the      *)
(* earlier ones do not.                                                    *)

RecentOf(file) == IF file = NoFile THEN <<>> ELSE file.recentRequests

Young(ts) == now - ts < config.freezeOnAnomalies.windowSeconds * 1000

ReachesAnomalyCheck ==
    /\ Requesting
    /\ ~ ReqFrozen /\ ~ ReqUnauthorized /\ ~ ReqNotListed
    /\ ~ ReqOverPerTx /\ ~ ReqOverDaily /\ ~ ReqCooldown

C19_AnomalyStep ==
    /\ ReachesAnomalyCheck
         => /\ stateFile' # NoFile
            /\ stateFile'.recentRequests
                   = Append(SelectSeq(RecentOf(stateFile), Young), now)
            /\ IF Len(stateFile'.recentRequests) >= config.freezeOnAnomalies.rapidRequests
               THEN /\ stateFile'.frozen = TRUE
                    /\ stateFile'.frozenReason = "anomaly_rapid_requests"
                    /\ stateFile'.frozenAt = [iso |-> now]
                    /\ LoggedAction(appended') = "auto_freeze"
                    /\ appended'[1].entry.count = Len(stateFile'.recentRequests)
                    /\ ret'.approved = FALSE
                    /\ ~ IssuedCode(ret')
                    /\ stateFile'.pendingConfirmation
                           = (IF HasPending THEN PendingOf ELSE Null)
               ELSE /\ stateFile'.frozen = FALSE
                    /\ IssuedCode(ret')
                    /\ LoggedAction(appended') = "confirmation_requested"
    /\ ~ ReachesAnomalyCheck => RecentOf(stateFile') = RecentOf(stateFile)

C19_AnomalyAutoFreeze ==
    /\ [](\A i \in DOMAIN RecentOf(stateFile) : RecentOf(stateFile)[i] <= now)
    /\ [][C19_AnomalyStep]_vars

\* the second request inside the window froze the wallet; the code given to the
\* first one is still pending
C19_Witness ==
    /\ call.op = "requestSend"
    /\ LoggedAction(appended) = "auto_freeze"
    /\ appended[1].entry.count = config.freezeOnAnomalies.rapidRequests
    /\ stateFile.frozen
    /\ HasPending
    /\ PendingOf.createdAt = [iso |-> now]

----------------------------------------------------------------------------
(* C20: the approval times of two consecutive approved transfers differ by *)
(* at least cooldown.betweenTransactions seconds (lastTransaction is the   *)
(* time of the latest approval); a requestSend made less than that time    *)
(* after lastTransaction, and passing the earlier checks, is rejected with *)
(* the remaining wait, issues no code and changes nothing.                 *)

CooldownMs == config.cooldown.betweenTransactions * 1000

LastOf(file) == IF file = NoFile THEN Null ELSE file.lastTransaction

C20_CooldownStep ==
    /\ (Confirming /\ ret'.approved)
         => /\ LastOf(stateFile) # Null => now - LastOf(stateFile).iso >= CooldownMs
            /\ LastOf(stateFile') = [iso |-> now]
    /\ ~ (Confirming /\ ret'.approved) => LastOf(stateFile') = LastOf(stateFile)
    /\ (Requesting /\ ReqCooldown /\ ~ ReqFrozen /\ ~ ReqUnauthorized /\ ~ ReqNotListed
            /\ ~ ReqOverPerTx /\ ~ ReqOverDaily)
         => /\ ret' = [approved |-> FALSE,
                       reason |-> [text |-> "Cooldown active",
                                   wait |-> (CooldownMs - (now - LastOf(stateFile).iso)
                                                + 999) \div 1000]]
            /\ stateFile' = stateFile

C20_CooldownBetweenApprovals == [][C20_CooldownStep]_vars

\* a second transfer has just been approved, one cooldown after the first
C20_Witness ==
    /\ call.op = "confirmSend"
    /\ ret.approved
    /\ stateFile.dailyTotal > config.limits.perTransaction
    /\ stateFile.dailyDate = DateOf(now)

----------------------------------------------------------------------------
(* Vocabulary of the integrity properties *)

EngineOps == {"requestSend", "confirmSend", "freeze", "unfreeze", "getStatus"}

IsIntegrityError(r) == "threw" \in DOMAIN r

\* the tracked file exists and is as its last save left it, and so is its tag
Untouched(f) ==
    /\ ContentOf(f) # NoFile
    /\ ContentOf(f) = lastSaved[f].content
    /\ signatures[f] = lastSaved[f].tag

\* the tracked file exists, and its content or its tag is not what the last save left
Altered(f) ==
    /\ ContentOf(f) # NoFile
    /\ \/ ContentOf(f) # lastSaved[f].content
       \/ signatures[f] # lastSaved[f].tag

\* what the next load of the tracked file does
LoadFails(f) ==
    CASE f = "config.json" -> loadConfigThrows(Integrity)
      [] f = "allowlist.json" -> loadAllowlistThrows(Integrity, allowlist)
      [] OTHER -> loadStateThrows(Integrity, stateFile)

Loaded(f) ==
    CASE f = "config.json" -> loadConfig
      [] f = "allowlist.json" -> AllowlistFile(loadAllowlist(allowlist))
      [] OTHER -> loadState(stateFile, now)

----------------------------------------------------------------------------
(* C14: with a secret set, a tracked file that is as saveConfig,           *)
(* saveAllowlist or saveState last wrote it (and whose tag is as that save *)
(* left it) verifies and loads back the content written; a file whose      *)
(* content differs from the one signed, or whose tag was changed or        *)
(* removed, does not verify and its load fails.                            *)

C14_SignedRoundTrip ==
    secret # Null
    => \A f \in TRACKED_FILES :
           /\ Untouched(f) => /\ verify(Integrity, f, ContentOf(f))
                              /\ ~ LoadFails(f)
                              /\ Loaded(f) = lastSaved[f].content
           /\ Altered(f) => /\ ~ verify(Integrity, f, ContentOf(f))
                            /\ LoadFails(f)

\* state.json was saved and signed by the guard and then rewritten by hand
C14_Witness ==
    /\ secret # Null
    /\ call.op = "tamper"
    /\ lastSaved["state.json"].content # NoFile
    /\ stateFile # NoFile
    /\ stateFile # lastSaved["state.json"].content
    /\ signatures["state.json"] = lastSaved["state.json"].tag
    /\ Untouched("config.json")
    /\ Untouched("allowlist.json")

----------------------------------------------------------------------------
(* C15: with a secret set, if state.json fails verification every engine   *)
(* operation ends with an integrity error instead of an outcome; so do     *)
(* requestSend and getStatus if config.json fails, and requestSend if      *)
(* allowlist.json fails and the allowlist check is reached (wallet not     *)
(* frozen, sender not unauthorized).  Such a call changes neither          *)
(* state.json nor the log nor .signatures.                                 *)

FailsVerification(f) ==
    /\ ContentOf(f) # NoFile
    /\ signatures[f] # [key |-> secret.key, content |-> ContentOf(f)]

\* the sender check of requestSend rejects the call being made
SenderRejected ==
    /\ configFile.authorizedSenders # <<>>
    /\ call'.sender # Null
    /\ \A i \in DOMAIN configFile.authorizedSenders :
           configFile.authorizedSenders[i] # call'.sender

Fatal ==
    /\ IsIntegrityError(ret')
    /\ DOMAIN ret' \cap {"approved", "reason", "frozen"} = {}
    /\ stateFile' = stateFile
    /\ appended' = <<>>
    /\ signatures' = signatures

C15_FatalStep ==
    (secret # Null /\ call'.op \in EngineOps)
    => /\ FailsVerification("state.json") => Fatal
       /\ (FailsVerification("config.json") /\ call'.op \in {"requestSend", "getStatus"})
            => Fatal
       /\ (FailsVerification("allowlist.json") /\ call'.op = "requestSend"
              /\ ~ IsFrozen /\ ~ SenderRejected)
            => Fatal

C15_IntegrityFailureIsFatal == [][C15_FatalStep]_vars

\* a request reached the allowlist check and found allowlist.json rewritten
C15_Witness ==
    /\ secret # Null
    /\ call.op = "requestSend"
    /\ ret = IntegrityError("allowlist.json")
    /\ stateFile # NoFile
    /\ FailsVerification("allowlist.json")

----------------------------------------------------------------------------
(* C16: with a secret set, once state.json was written and signed by the   *)
(* guard, an engine operation that finds it missing fails instead of       *)
(* running on the default state.                                           *)

C16_DeletedStateDetected ==
    [][(secret # Null /\ lastSaved["state.json"].content # NoFile
           /\ stateFile = NoFile /\ call'.op \in EngineOps)
          => IsIntegrityError(ret')]_vars

----------------------------------------------------------------------------
(* C17: without a secret, verify is true for every tracked file whatever   *)
(* its content and tag (rewritten, unsigned or missing), sign returns null *)
(* and leaves .signatures alone, and every engine operation leaves the     *)
(* state, the log lines and the result it would with a secret set and      *)
(* every file correctly signed.                                            *)

TestSecret == [key |-> "test-secret-key-123"]

\* the same files under a secret, each carrying the tag of its content
SignedWorld ==
    [secret |-> TestSecret,
     signatures |-> [f \in TRACKED_FILES |->
                        IF ContentOf(f) = NoFile THEN Undefined
                        ELSE createHmac(TestSecret, ContentOf(f))]]

\* what the call being made leaves in that world
SignedOutcomes ==
    CASE call'.op = "requestSend" ->
             {requestSend(SignedWorld, stateFile, allowlist, now, call'.to,
                          call'.amount, call'.token, call'.sender, rnd) :
                  rnd \in randomInt(100000, 999999)}
      [] call'.op = "confirmSend" ->
             {confirmSend(SignedWorld, stateFile, now, call'.code, call'.sender)}
      [] call'.op = "freeze" -> {freeze(SignedWorld, stateFile, now, call'.reason)}
      [] call'.op = "unfreeze" -> {unfreeze(SignedWorld, stateFile, now)}
      [] OTHER -> {getStatus(SignedWorld, stateFile, now)}

C17_NoSecretStep ==
    (secret = Null /\ call'.op \in EngineOps)
    => /\ ~ IsIntegrityError(ret')
       /\ signatures' = signatures
       /\ \E out \in SignedOutcomes :
              /\ stateFile' = out.file
              /\ appended' = out.log
              /\ ret' = out.ret

C17_NoSecretNoChecks ==
    /\ [](secret = Null
            => \A f \in TRACKED_FILES :
                   /\ verify(Integrity, f, ContentOf(f))
                   /\ verify(Integrity, f, NoFile)
                   /\ sign(Integrity, f, ContentOf(f)) = Null
                   /\ signWrite(Integrity, f, ContentOf(f)) = signatures)
    /\ [][C17_NoSecretStep]_vars

\* the guard froze the wallet, state.json was rewritten by hand as unfrozen, and
\* getStatus, run without a secret, reports the rewritten state
C17_Witness ==
    /\ secret = Null
    /\ call.op = "getStatus"
    /\ edits > 0
    /\ lastSaved["state.json"].content # NoFile
    /\ lastSaved["state.json"].content.frozen
    /\ ret.frozen = FALSE

----------------------------------------------------------------------------
(* C21: every requestSend or confirmSend call that returns a rejection for *)
(* a frozen wallet, an unauthorized sender, an allowlist miss, the         *)
(* per-transaction limit, the daily limit, the cooldown, a wrong code, an  *)
(* expired code or a sender mismatch appends exactly one entry to          *)
(* transactions.log, and the entry describes that rejection.               *)

\* the audit entry that describes each policy rejection: action and reason
RejectionEntry(text) ==
    CASE text = "Wallet is FROZEN. Unfreeze before sending."
             -> <<"rejected", "wallet_frozen">>
      [] text = "Unauthorized sender."
             -> <<"rejected", "unauthorized_sender">>
      [] text = "Address not in allowlist. Add it first"
             -> <<"rejected", "address_not_allowlisted">>
      [] text = "Amount exceeds per-transaction limit"
             -> <<"rejected", "over_per_tx_limit">>
      [] text = "Would exceed daily limit"
             -> <<"rejected", "over_daily_limit">>
      [] text = "Cooldown active"
             -> <<"rejected", "cooldown">>
      [] text = "Wrong confirmation code."
             -> <<"wrong_code", "none">>
      [] text = "Confirmation code expired. Request a new transaction."
             -> <<"confirmation_expired", "none">>
      [] text = "Sender mismatch. Only the original requester can confirm."
             -> <<"sender_mismatch", "none">>
      [] OTHER -> <<"none", "none">>

PolicyRejection(r) == RejectionEntry(ReasonText(r)) # <<"none", "none">>

LoggedReason(lines) ==
    IF Len(lines) = 1 /\ "reason" \in DOMAIN lines[1].entry
    THEN lines[1].entry.reason
    ELSE "none"

C21_RejectionStep ==
    ((Requesting \/ Confirming) /\ PolicyRejection(ret'))
    => /\ Len(appended') = 1
       /\ <<LoggedAction(appended'), LoggedReason(appended')>>
              = RejectionEntry(ReasonText(ret'))

C21_RejectionsLogged == [][C21_RejectionStep]_vars

----------------------------------------------------------------------------
(* C22: every call of requestSend, confirmSend, freeze, unfreeze or        *)
(* getStatus that writes a changed state.json appends exactly one entry to *)
(* transactions.log in the same call, and no call appends more than one.   *)

C22_MutationStep ==
    call'.op \in EngineOps
    => /\ stateFile' # stateFile => Len(appended') = 1
       /\ Len(appended') <= 1

C22_MutationsLogged == [][C22_MutationStep]_vars

----------------------------------------------------------------------------
(* C23: getStatus never changes frozen, frozenReason, pendingConfirmation, *)
(* lastTransaction or recentRequests, and changes dailyTotal and dailyDate *)
(* only by the reset to 0 and today when dailyDate differs from today; it  *)
(* logs nothing; a second call on the same date writes nothing and returns *)
(* the result of the first.                                                *)

\* the instants of the explored window
Instants == {StartMs + k * MsPerSec : k \in 0..MaxTicks}

C23_GetStatusStep ==
    call'.op = "getStatus"
    => /\ IF stateFile = NoFile
          THEN stateFile' = NoFile
          ELSE IF stateFile.dailyDate # DateOf(now)
          THEN stateFile' = [stateFile EXCEPT !.dailyTotal = 0,
                                              !.dailyDate = DateOf(now)]
          ELSE stateFile' = stateFile
       /\ appended' = <<>>
       /\ ret' = [frozen |-> IsFrozen,
                  frozenReason |-> IF stateFile = NoFile THEN Undefined
                                   ELSE stateFile.frozenReason,
                  dailyTotal |-> SpentToday,
                  dailyMax |-> config.limits.dailyMax,
                  dailyRemaining |-> config.limits.dailyMax - SpentToday,
                  pendingConfirmation |-> HasPending]
       /\ \A t \in Instants :
              DateOf(t) = DateOf(now)
              => getStatus(Integrity', stateFile', t) = Out(stateFile', <<>>, ret')

C23_GetStatusIdempotent == [][C23_GetStatusStep]_vars

\* getStatus has just reset the total of an earlier day, keeping the frozen flag
\* and the pending confirmation it found
C23_Witness ==
    /\ call.op = "getStatus"
    /\ stateFile # NoFile
    /\ stateFile.dailyDate = DateOf(now)
    /\ stateFile.dailyTotal = 0
    /\ stateFile.lastTransaction # Null
    /\ HasPending
    /\ ret.pendingConfirmation
    /\ ret.dailyRemaining = config.limits.dailyMax

----------------------------------------------------------------------------
(* C24: from any state freeze(reason) leaves frozen = true with            *)
(* frozenReason = reason, and unfreeze leaves frozen = false with frozenAt *)
(* and frozenReason null; applying either a second time gives the same     *)
(* frozen flag; each call persists the state and appends one audit entry,  *)
(* and neither changes pendingConfirmation, dailyTotal, dailyDate,         *)
(* lastTransaction or recentRequests.                                      *)

\* the state a call made now starts from
StateOrDefault ==
    IF stateFile = NoFile
    THEN [frozen |-> FALSE, frozenAt |-> Null, frozenReason |-> Undefined,
          dailyTotal |-> 0, dailyDate |-> DateOf(now), lastTransaction |-> Null,
          pendingConfirmation |-> Null, recentRequests |-> <<>>]
    ELSE stateFile

C24_ToggleStep ==
    /\ call'.op = "freeze"
         => /\ stateFile' = [StateOrDefault EXCEPT !.frozen = TRUE,
                                                   !.frozenAt = [iso |-> now],
                                                   !.frozenReason = call'.reason]
            /\ ret' = [frozen |-> TRUE, reason |-> call'.reason]
            /\ Len(appended') = 1
            /\ appended'[1].entry = [action |-> "freeze", reason |-> call'.reason]
            /\ \A t \in Instants :
                   t >= now => freeze(Integrity', stateFile', t, call'.reason).file.frozen
    /\ call'.op = "unfreeze"
         => /\ stateFile' = [StateOrDefault EXCEPT !.frozen = FALSE,
                                                   !.frozenAt = Null,
                                                   !.frozenReason = Null]
            /\ ret' = [frozen |-> FALSE]
            /\ Len(appended') = 1
            /\ appended'[1].entry = [action |-> "unfreeze"]
            /\ \A t \in Instants :
                   t >= now => ~ unfreeze(Integrity', stateFile', t).file.frozen

C24_FreezeUnfreeze == [][C24_ToggleStep]_vars

\* a wallet that was already frozen by the anomaly check has just been frozen by
\* hand, with a confirmation pending and a transfer approved earlier in the day
C24_Witness ==
    /\ call.op = "freeze"
    /\ stateFile.frozen
    /\ stateFile.frozenReason = "manual"
    /\ HasPending
    /\ stateFile.dailyTotal > 0
    /\ Len(stateFile.recentRequests) = 2

----------------------------------------------------------------------------
(* C28: under a fixed config no approved transfer has an amount above      *)
(* limits.perTransaction: a requestSend with a larger amount that passed   *)
(* the earlier checks is rejected with the per-transaction reason and      *)
(* creates no pending confirmation, an amount equal to the limit is not    *)
(* refused by this check, and the amount confirmSend approves is the       *)
(* amount of the pending confirmation, which passed the check.             *)

PerTxLimit == config.limits.perTransaction

C28_PerTxStep ==
    /\ (Requesting /\ ~ ReqFrozen /\ ~ ReqUnauthorized /\ ~ ReqNotListed /\ ReqOverPerTx)
         => /\ ret' = [approved |-> FALSE,
                       reason |-> [text |-> "Amount exceeds per-transaction limit",
                                   amount |-> call'.amount,
                                   limit |-> PerTxLimit]]
            /\ stateFile' = stateFile
    /\ (Requesting /\ call'.amount <= PerTxLimit)
         => ReasonText(ret') # "Amount exceeds per-transaction limit"
    /\ (Requesting /\ IssuedCode(ret'))
         => /\ call'.amount <= PerTxLimit
            /\ stateFile'.pendingConfirmation.amount = call'.amount
    /\ (Confirming /\ ret'.approved)
         => /\ ret'.amount = PendingOf.amount
            /\ ret'.amount <= PerTxLimit

C28_PerTransactionLimit ==
    /\ [](HasPending => PendingOf.amount <= PerTxLimit)
    /\ [][C28_PerTxStep]_vars

\* a transfer of exactly the limit has just been approved
C28_Witness ==
    /\ call.op = "confirmSend"
    /\ ret.approved
    /\ ret.amount = PerTxLimit

----------------------------------------------------------------------------
(* C30: every code requestSend issues is an integer of 100000..999999      *)
(* written as 6 decimal digits, and every value of 100000..999999,         *)
(* 999999 included, can be issued: whenever a request is given a code, the *)
(* same request can be given each of these values.                         *)

\* the values of 100000..999999 among the ones the model draws
SixDigitValues == {n \in CodeSamples : 100000 <= n /\ n <= 999999}

\* requestSend for 1 USDC to the listed address, made now with the draw rnd
ProbeRequest(rnd) ==
    requestSend(Integrity, stateFile, allowlist, now,
                <<"0", "x", "A", "B">>, 1, "USDC", Null, rnd)

Draws == randomInt(100000, 999999)

C30_FullCodeSpace ==
    /\ HasPending => (SixDigits(PendingOf.code) /\ PendingOf.code[1] # 0)
    /\ IssuedCode(ret) => (SixDigits(ret.message.code) /\ ret.message.code[1] # 0)
    /\ (\E rnd \in Draws : IssuedCode(ProbeRequest(rnd).ret))
         => \A n \in SixDigitValues :
                \E rnd \in Draws :
                    /\ IssuedCode(ProbeRequest(rnd).ret)
                    /\ ProbeRequest(rnd).ret.message.code = Digits(n)
                    /\ ProbeRequest(rnd).file.pendingConfirmation.code = Digits(n)

----------------------------------------------------------------------------
(* C25: when "awg confirm" gets approved: true, state.json already holds   *)
(* dailyTotal increased by the amount, lastTransaction set and             *)
(* pendingConfirmation cleared, and the approved entry is logged, before   *)
(* awal is invoked; awal is invoked only then, with the approved to and    *)
(* amount; its failure (or success) changes neither state.json nor the     *)
(* log; running confirm again with the same code while no new request was  *)
(* given a code returns "No pending transaction" and starts no transfer.   *)

C25_ConfirmStep ==
    /\ (Confirming /\ ret'.approved)
         => /\ stateFile' = [stateFile EXCEPT
                                 !.dailyTotal = @ + PendingOf.amount,
                                 !.lastTransaction = [iso |-> now],
                                 !.pendingConfirmation = Null]
            /\ lastSaved'["state.json"].content = stateFile'
            /\ Len(appended') = 1
            /\ appended'[1].entry = [action |-> "approved", to |-> PendingOf.to,
                                     amount |-> PendingOf.amount,
                                     token |-> PendingOf.token]
            /\ executing = Null
            /\ executing' = [code |-> call'.code, to |-> PendingOf.to,
                             amount |-> PendingOf.amount]
    /\ ~ (Confirming /\ ret'.approved) => executing' \in {executing, Null}
    /\ call'.op = "awal"
         => /\ executing # Null
            /\ call'.to = executing.to /\ call'.amount = executing.amount
            /\ stateFile' = stateFile
            /\ lastSaved' = lastSaved
            /\ appended' = <<>>
            /\ approvedOn' = approvedOn
    /\ (call.op = "awal" /\ Confirming /\ call'.code = call.code /\ ~ HasPending)
         => /\ ret' = [approved |-> FALSE,
                       reason |-> [text |-> "No pending transaction to confirm."]]
            /\ stateFile' = stateFile
            /\ executing' = Null

C25_ApprovalBeforeExecution ==
    /\ []((call.op = "confirmSend" /\ executing # Null)
              => (~ HasPending /\ stateFile.lastTransaction = [iso |-> now]))
    /\ [][C25_ConfirmStep]_vars

\* awal has just failed: the approval it was started for is still recorded
C25_Witness ==
    /\ call.op = "awal"
    /\ call.outcome = "failed"
    /\ executing = Null
    /\ ~ HasPending
    /\ stateFile.dailyTotal = call.amount
    /\ stateFile.lastTransaction = [iso |-> now]
    /\ approvedOn[DateOf(now)] = call.amount

----------------------------------------------------------------------------
(* C27: state.json holds at most one pending confirmation; a requestSend   *)
(* that passes all checks while one is pending is not rejected but stores  *)
(* a new one in its place (new code, to, amount, token, sender, expiry,    *)
(* attempts 0); every approval needs the code of the stored confirmation   *)
(* and returns the to/amount/token of the latest request that was given a  *)
(* code; pendingConfirmation becomes non-null only by such a request,      *)
(* changes otherwise only in its attempts (wrong code), and becomes null   *)
(* only by confirmSend (approval, expiry, brute-force cancel).             *)

PendingBefore == IF HasPending THEN PendingOf ELSE Null

PendingAfter == IF HasPendingAfter THEN stateFile'.pendingConfirmation ELSE Null

C27_PendingStep ==
    /\ (Requesting /\ IssuedCode(ret'))
         => /\ PendingAfter =
                   [code |-> ret'.message.code,
                    to |-> call'.to,
                    amount |-> call'.amount,
                    token |-> call'.token,
                    sender |-> call'.sender,
                    attempts |-> 0,
                    createdAt |-> [iso |-> now],
                    expiresAt |-> [iso |-> now + config.confirmation.codeExpiry * 1000]]
            /\ latest' = [request |-> [to |-> call'.to, amount |-> call'.amount,
                                       token |-> call'.token],
                          replaced |-> PendingBefore]
    /\ (Requesting /\ ~ IssuedCode(ret')) => PendingAfter = PendingBefore
    /\ (ReachesAnomalyCheck /\ ~ ReqTooRapid) => IssuedCode(ret')
    /\ Confirming
         => \/ PendingAfter = PendingBefore
            \/ /\ HasPending
               /\ PendingAfter = [PendingBefore EXCEPT !.attempts = @ + 1]
               /\ LoggedAction(appended') = "wrong_code"
            \/ /\ HasPending
               /\ PendingAfter = Null
               /\ LoggedAction(appended') \in {"approved", "confirmation_expired",
                                               "brute_force_cancel"}
    /\ (Confirming /\ ret'.approved)
         => /\ HasPending
            /\ call'.code = PendingOf.code
            /\ [to |-> ret'.to, amount |-> ret'.amount, token |-> ret'.token]
                   = latest.request
    /\ ~ (Requesting \/ Confirming) => PendingAfter = PendingBefore

C27_SinglePendingReplaced ==
    /\ [](HasPending
              => latest.request = [to |-> PendingOf.to, amount |-> PendingOf.amount,
                                   token |-> PendingOf.token])
    /\ [][C27_PendingStep]_vars

\* a request replaced a confirmation that was still valid, with another code and
\* another amount, and the new code has just been approved for the new amount
C27_Witness ==
    /\ call.op = "confirmSend"
    /\ ret.approved
    /\ latest.replaced # Null
    /\ latest.replaced.code # call.code
    /\ latest.replaced.amount # ret.amount
    /\ latest.replaced.expiresAt.iso >= now
    /\ ret.amount = latest.request.amount

----------------------------------------------------------------------------
(* C29: whenever confirmSend returns approved: true, the destination       *)
(* address is in the allowlist (case-insensitively) at the time of the     *)
(* approval, also when removeAddress changed the allowlist between the     *)
(* requestSend and the confirmSend.                                        *)

ListedNow(address) ==
    toLowerCase(address) \in {toLowerCase(allowlist[i].address) : i \in DOMAIN allowlist}

C29_ApprovalStep == (Confirming /\ ret'.approved) => ListedNow(ret'.to)

C29_ApprovedOnlyToListed == [][C29_ApprovalStep]_vars

(* C26: nothing protects operations on one wallet directory from          *)
(* overlapping.  When two confirmSend invocations with the correct code    *)
(* both load state.json before either saves, both return approved: true    *)
(* for the one pending confirmation and dailyTotal is raised by the amount *)
(* once.  An approval of a confirmation that state.json no longer holds,   *)
(* and a code returned although state.json already records                 *)
(* rapidRequests - 1 requests of the window, happen only to an invocation  *)
(* that another one overtook between its load and its save.                *)

\* invocation i runs the rest of its handler in this step
Decides(i, op) == inflight[i] # Null /\ inflight[i].op = op /\ inflight'[i] = Null

\* state.json was saved by another invocation since i loaded it
Overtaken(i) == inflight[i].file # stateFile

\* i loaded a confirmation that its code matches and that had not expired
LoadedMatching(i) ==
    /\ inflight[i].file # NoFile
    /\ inflight[i].file.pendingConfirmation # Null
    /\ inflight[i].file.pendingConfirmation.code = inflight[i].code
    /\ inflight[i].at <= inflight[i].file.pendingConfirmation.expiresAt.iso
    /\ inflight[i].file.dailyDate = DateOf(inflight[i].at)

\* the other invocation has approved that confirmation in the meantime
ApprovedMeanwhile(i) ==
    /\ ~ HasPending
    /\ stateFile.dailyDate = inflight[i].file.dailyDate
    /\ stateFile.dailyTotal =
           inflight[i].file.dailyTotal + inflight[i].file.pendingConfirmation.amount

ApprovesConsumed(i) == Decides(i, "confirmSend") /\ ret'.approved /\ ~ HasPending

CodeOverPending(i) ==
    /\ Decides(i, "requestSend")
    /\ IssuedCode(ret')
    /\ HasPending
    /\ inflight[i].at <= PendingOf.expiresAt.iso

CodeUncounted(i) ==
    /\ Decides(i, "requestSend")
    /\ IssuedCode(ret')
    /\ LET recent == IF stateFile = NoFile THEN <<>> ELSE stateFile.recentRequests
           young == {k \in DOMAIN recent :
                         inflight[i].at - recent[k]
                             < config.freezeOnAnomalies.windowSeconds * 1000}
       IN Cardinality(young) + 1 >= config.freezeOnAnomalies.rapidRequests

C26_LostUpdateStep ==
    \A i \in Invocations :
        /\ (Decides(i, "confirmSend") /\ LoadedMatching(i) /\ ApprovedMeanwhile(i))
           => /\ ret'.approved
              /\ stateFile'.dailyTotal = stateFile.dailyTotal
        /\ (ApprovesConsumed(i) \/ CodeUncounted(i)) => Overtaken(i)

C26_RaceOnlyUnderOverlap == [][C26_LostUpdateStep]_vars

\* both invocations were approved for one confirmation of 1, counted once
C26_Witness ==
    /\ call.op = "confirmSend"
    /\ ret.approved
    /\ stateFile.pendingConfirmation = Null
    /\ approvedOn[stateFile.dailyDate] = 2
    /\ stateFile.dailyTotal = 1

\* as stated: two codes with one surviving confirmation need an overlap as well
C26_OriginalStep ==
    \A i \in Invocations :
        (ApprovesConsumed(i) \/ CodeOverPending(i)) => Overtaken(i)

C26_BadStatesNeedOverlap == [][C26_OriginalStep]_vars

(* C31: unfreeze leaves recentRequests untouched.  On a wallet that an     *)
(* anomaly freeze stopped and unfreeze released, a requestSend passing the *)
(* frozen, sender, allowlist, limit and cooldown checks while the recorded *)
(* timestamps are all inside the window freezes the wallet again with      *)
(* auto_freeze and returns no code; a code is returned only when fewer     *)
(* than rapidRequests - 1 recorded timestamps are left inside the window.  *)

\* released after an anomaly freeze: not frozen, rapidRequests timestamps or more on record
Thawed ==
    /\ stateFile # NoFile
    /\ ~ stateFile.frozen
    /\ Len(stateFile.recentRequests) >= config.freezeOnAnomalies.rapidRequests

StillInside ==
    \A k \in DOMAIN stateFile.recentRequests :
        now - stateFile.recentRequests[k] < config.freezeOnAnomalies.windowSeconds * 1000

C31_ThawedStep ==
    /\ (call'.op = "unfreeze" /\ stateFile # NoFile)
       => stateFile'.recentRequests = stateFile.recentRequests
    /\ (Requesting /\ Thawed)
       => /\ (ReachesAnomalyCheck /\ StillInside)
             => /\ stateFile'.frozen
                /\ stateFile'.frozenReason = "anomaly_rapid_requests"
                /\ Len(stateFile'.recentRequests) = Len(stateFile.recentRequests) + 1
                /\ LoggedAction(appended') = "auto_freeze"
                /\ ~ IssuedCode(ret')
          /\ IssuedCode(ret') => ~ ReqTooRapid

C31_UnfreezeKeepsWindow == [][C31_ThawedStep]_vars

\* the thawed wallet has frozen again, on a request counted on top of the earlier ones
C31_Witness ==
    /\ call.op = "requestSend"
    /\ LoggedAction(appended) = "auto_freeze"
    /\ stateFile.frozen
    /\ Len(stateFile.recentRequests) = config.freezeOnAnomalies.rapidRequests + 1

(* C32: whatever integer amounts requestSend is given, zero and negative   *)
(* ones included, dailyTotal is never negative and never decreases except  *)
(* when a date rollover resets it to zero, so the remaining daily          *)
(* allowance dailyMax - dailyTotal never exceeds dailyMax.                 *)

\* dailyTotal of the persisted state, 0 before state.json exists
DailyTotalOf(file) == IF file = NoFile THEN 0 ELSE file.dailyTotal

RolledOver ==
    /\ stateFile # NoFile
    /\ stateFile' # NoFile
    /\ stateFile'.dailyDate # stateFile.dailyDate
    /\ stateFile'.dailyTotal = 0

C32_TotalStep == DailyTotalOf(stateFile') >= DailyTotalOf(stateFile) \/ RolledOver

C32_DailyTotalNeverShrinks ==
    /\ [](DailyTotalOf(stateFile) >= 0)
    /\ [](config.limits.dailyMax - DailyTotalOf(stateFile) <= config.limits.dailyMax)
    /\ [][C32_TotalStep]_vars

====
